---- MODULE Spec2Model ----
(***************************************************************************)
(* mail2mp3: a mailbox poller (start_listening) feeds parsed mails through *)
(* a multiprocessing Queue to os.cpu_count() process_mail workers, which   *)
(* resolve a YouTube id (get_youtube_id, handle_shazam), create the output *)
(* directory (create_out_dir) and call the downloader.                     *)
(*                                                                         *)
(* Python strings are sequences of one-character strings.  Python values   *)
(* whose type matters (JSON documents, youtube_id) are records             *)
(* [t |-> type tag, v |-> payload].                                        *)
(***************************************************************************)
EXTENDS Integers, Sequences, FiniteSets, TLC

\* ------------------------------------------------------------------------
\* Bounds of the model
\* ------------------------------------------------------------------------
\* largest os.cpu_count() of the machines modelled
MaxCpuCount == 2
\* number of messages that arrive in the mailbox during a run
MaxMails == 2
\* number of pieces a text handed to get_youtube_id is put together from
MaxTokens == 2

\* ------------------------------------------------------------------------
\* Python values
\* ------------------------------------------------------------------------
None == [t |-> "none", v |-> <<>>]
JStr(s) == [t |-> "str", v |-> s]
JNum(n) == [t |-> "num", v |-> n]
JArr(s) == [t |-> "arr", v |-> s]
JObj(f) == [t |-> "obj", v |-> f]
\* a response text json.loads cannot parse
JBad == [t |-> "bad", v |-> <<>>]
\* the value an expression has when evaluating it raised an exception
Raised == [t |-> "raised", v |-> <<>>]

\* Python truthiness ("if not x")
Truthy(x) ==
    CASE x.t = "none" -> FALSE
      [] x.t = "str"  -> Len(x.v) > 0
      [] x.t = "num"  -> x.v # 0
      [] x.t = "arr"  -> Len(x.v) > 0
      [] x.t = "obj"  -> DOMAIN x.v # {}
      [] OTHER        -> FALSE

\* x[key] for a string key: only a dict that has the key answers
GetKey(x, key) ==
    IF x.t = "obj" THEN (IF key \in DOMAIN x.v THEN x.v[key] ELSE Raised)
    ELSE Raised

\* x[0]: first element of a list, first character of a string
GetFirst(x) ==
    CASE x.t = "arr" -> (IF Len(x.v) > 0 THEN x.v[1] ELSE Raised)
      [] x.t = "str" -> (IF Len(x.v) > 0 THEN JStr(<<x.v[1]>>) ELSE Raised)
      [] OTHER       -> Raised

\* the sequence "for e in x" walks through: the elements of a list, the
\* characters of a string, the keys of a dict (strings; the code only
\* subscripts them with a string, which raises for every string alike)
Iterate(x) ==
    CASE x.t = "arr" -> x.v
      [] x.t = "str" -> [i \in 1..Len(x.v) |-> JStr(<<x.v[i]>>)]
      [] x.t = "obj" -> [i \in 1..Cardinality(DOMAIN x.v) |-> JStr(<<"k">>)]
      [] OTHER       -> <<>>

Iterable(x) == x.t \in {"arr", "str", "obj"}

\* ------------------------------------------------------------------------
\* getyotubeid.py
\* ------------------------------------------------------------------------
\* {11} of the structural patterns and of id_pattern
IdLen == 11

S_youtube == <<"y","o","u","t","u","b","e">>
S_youtu_be == <<"y","o","u","t","u",".","b","e">>
P_short == <<"y","o","u","t","u",".","b","e","/">>
P_qv == <<"?","v","=">>
P_av == <<"&","v","=">>
P_embed == <<"e","m","b","e","d","/">>
P_v == <<"/","v","/">>

\* the ordered list "patterns": each is its literal prefix followed by
\* ([^#&?]{11})
patterns == <<P_short, P_qv, P_av, P_embed, P_v>>

\* the character class [^#\&\?]
IdChar(c) == c \notin {"#", "&", "?"}

\* the character class [\/\&\?=#\.\s] of fuzzy_pattern
FuzzyDelim(c) == c \in {"/", "&", "?", "=", "#", ".", " ", "\n", "\t", "\r"}

\* literal occurs in text at position i
LiteralAt(text, i, literal) ==
    /\ i >= 1
    /\ i + Len(literal) - 1 <= Len(text)
    /\ \A k \in 1..Len(literal) : text[i + k - 1] = literal[k]

\* no fast reject: every text passes
base_pattern_Any(text) == TRUE

\* base_pattern youtu\.?be finds something in text
base_pattern(text) ==
    \E i \in 1..Len(text) :
        LiteralAt(text, i, S_youtube) \/ LiteralAt(text, i, S_youtu_be)

\* a structural pattern matches at position i
PatternAt(text, i, prefix) ==
    /\ LiteralAt(text, i, prefix)
    /\ i + Len(prefix) + IdLen - 1 <= Len(text)
    /\ \A k \in 0..(IdLen - 1) : IdChar(text[i + Len(prefix) + k])

\* pattern.findall(text): the captured groups of the non-overlapping
\* matches, found scanning from left to right; from[pos] are those of the
\* scan from position pos on: the leftmost match at or after pos, then the
\* scan from its end on
findall(text, prefix) ==
    LET Starts == {i \in 1..Len(text) : PatternAt(text, i, prefix)}
        from[pos \in 1..(Len(text) + 1)] ==
            IF \A i \in Starts : i < pos THEN <<>>
            ELSE LET first == CHOOSE i \in Starts :
                            i >= pos /\ \A k \in Starts : k >= pos => i <= k
                 IN  <<SubSeq(text, first + Len(prefix),
                              first + Len(prefix) + IdLen - 1)>>
                     \o from[first + Len(prefix) + IdLen]
    IN  from[1]

\* "for pattern in patterns": the matches appended in pattern order;
\* upto[k] are those of the first k patterns
StructuralMatches(text) ==
    LET upto[k \in 0..Len(patterns)] ==
            IF k = 0 THEN <<>>
            ELSE upto[k - 1] \o findall(text, patterns[k])
    IN  upto[Len(patterns)]

\* fuzzy_pattern.split(text): the pieces between delimiters, empty ones
\* kept; from[pos] are the pieces of the text from position pos on: the
\* piece up to the next delimiter, then those after it
fuzzy_split(text) ==
    LET Delims == {i \in 1..Len(text) : FuzzyDelim(text[i])}
        from[pos \in 1..(Len(text) + 1)] ==
            IF \A i \in Delims : i < pos THEN <<SubSeq(text, pos, Len(text))>>
            ELSE LET first == CHOOSE i \in Delims :
                            i >= pos /\ \A k \in Delims : k >= pos => i <= k
                 IN  <<SubSeq(text, pos, first - 1)>> \o from[first + 1]
    IN  from[1]

\* id_pattern ^[^#\&\?]{11}$ matches the piece
id_pattern(part) ==
    /\ Len(part) = IdLen
    /\ \A k \in 1..Len(part) : IdChar(part[k])

\* the list "results" with the pieces of the split before the matches of
\* the patterns
Results_FuzzyFirst(text, fuzzy) ==
    (IF fuzzy THEN SelectSeq(fuzzy_split(text), id_pattern) ELSE <<>>)
    \o StructuralMatches(text)

\* the list "results" when the base pattern matched
Results(text, fuzzy) ==
    StructuralMatches(text)
    \o (IF fuzzy THEN SelectSeq(fuzzy_split(text), id_pattern) ELSE <<>>)

\* the search without the test of the base pattern
get_youtube_id_NoReject(text, first_match, fuzzy) ==
    IF Len(Results(text, fuzzy)) > 0
    THEN IF first_match
         THEN JStr(Results(text, fuzzy)[1])
         ELSE [t |-> "tuple",
               v |-> {Results(text, fuzzy)[i] : i \in 1..Len(Results(text, fuzzy))}]
    ELSE None

get_youtube_id(text, first_match, fuzzy) ==
    IF base_pattern(text) /\ Len(Results(text, fuzzy)) > 0
    THEN IF first_match
         THEN JStr(Results(text, fuzzy)[1])
         ELSE [t |-> "tuple",
               v |-> {Results(text, fuzzy)[i] : i \in 1..Len(Results(text, fuzzy))}]
    ELSE None

\* ------------------------------------------------------------------------
\* mail2mp3.py: handle_shazam
\* ------------------------------------------------------------------------
P_shazam == <<"s","h","a","z","a","m",".","c","o","m","/","t","r","a","c","k","/">>
P_shz == <<"s","h","z",".","a","m","/","t">>
S_generalvideos == <<"g","e","n","e","r","a","l","v","i","d","e","o","s">>
S_youtubeplay == <<"y","o","u","t","u","b","e","p","l","a","y">>

\* the character class \d
Digit(c) == c \in {"0", "1", "2", "3", "4", "5", "6", "7", "8", "9"}

\* length of the longest run of digits that starts at position i (\d+ is greedy)
DigitRun(text, i) ==
    LET run[pos \in 1..(Len(text) + 1)] ==
            IF pos <= Len(text) /\ Digit(text[pos]) THEN 1 + run[pos + 1] ELSE 0
    IN  run[i]

\* shazam\.com\/track\/\d+# matches at position i
ShazamLongAt(text, i) ==
    /\ LiteralAt(text, i, P_shazam)
    /\ DigitRun(text, i + Len(P_shazam)) >= 1
    /\ i + Len(P_shazam) + DigitRun(text, i + Len(P_shazam)) <= Len(text)
    /\ text[i + Len(P_shazam) + DigitRun(text, i + Len(P_shazam))] = "#"

\* shz\.am\/t\d+ matches at position i
ShazamShortAt(text, i) ==
    /\ LiteralAt(text, i, P_shz)
    /\ DigitRun(text, i + Len(P_shz)) >= 1

\* the first element of pattern.findall(mail_body) of either pattern, the
\* long form tried first; <<>> when neither pattern finds anything
shazam_url(mail_body) ==
    IF \E i \in 1..Len(mail_body) : ShazamLongAt(mail_body, i)
    THEN LET first == CHOOSE i \in 1..Len(mail_body) :
                    /\ ShazamLongAt(mail_body, i)
                    /\ \A k \in 1..(i - 1) : ~ShazamLongAt(mail_body, k)
         IN  SubSeq(mail_body, first,
                    first + Len(P_shazam) + DigitRun(mail_body, first + Len(P_shazam)))
    ELSE IF \E i \in 1..Len(mail_body) : ShazamShortAt(mail_body, i)
    THEN LET first == CHOOSE i \in 1..Len(mail_body) :
                    /\ ShazamShortAt(mail_body, i)
                    /\ \A k \in 1..(i - 1) : ~ShazamShortAt(mail_body, k)
         IN  SubSeq(mail_body, first,
                    first + Len(P_shz) + DigitRun(mail_body, first + Len(P_shz)) - 1)
    ELSE <<>>

\* shazam_id_pattern.findall(shazam_url)[0]: the first run of digits;
\* <<>> when the link has no digit
shazam_id(link) ==
    IF \E i \in 1..Len(link) : Digit(link[i])
    THEN LET first == CHOOSE i \in 1..Len(link) :
                    Digit(link[i]) /\ \A k \in 1..(i - 1) : ~Digit(link[k])
         IN  SubSeq(link, first, first + DigitRun(link, first) - 1)
    ELSE <<>>

\* one round of "for action in feed['actions']", entered with the variable
\* url holding cur: url after it, Raised when a subscript raises or the
\* rounds before raised
ActionStep(cur, action) ==
    IF cur.t = "raised" THEN Raised
    ELSE IF GetKey(action, "type").t = "raised" THEN Raised
    ELSE IF /\ GetKey(action, "type").t = "str"
            /\ GetKey(action, "type").v = S_youtubeplay
         THEN GetKey(action, "href")
         ELSE cur

\* "for action in feed['actions']", entered with url holding url0;
\* after[k] is url after the first k actions
ActionsLoop(actions, url0) ==
    LET after[k \in 0..Len(actions)] ==
            IF k = 0 THEN url0 ELSE ActionStep(after[k - 1], actions[k])
    IN  after[Len(actions)]

\* one round of "for feed in response['feed']"
FeedStep(cur, feed) ==
    IF cur.t = "raised" THEN Raised
    ELSE IF GetKey(feed, "id").t = "raised" THEN Raised
    ELSE IF /\ GetKey(feed, "id").t = "str"
            /\ GetKey(feed, "id").v = S_generalvideos
         THEN IF ~Iterable(GetKey(feed, "actions")) THEN Raised
              ELSE ActionsLoop(Iterate(GetKey(feed, "actions")), cur)
         ELSE cur

\* "for feed in response['feed']": after[k] is url after the first k entries
FeedLoop(feed) ==
    LET after[k \in 0..Len(feed)] ==
            IF k = 0 THEN None ELSE FeedStep(after[k - 1], feed[k])
    IN  after[Len(feed)]

\* the value of url after the loops over the hop-1 response text;
\* Raised when json.loads or a subscript or an iteration raises
Hop1Url(text) ==
    IF text.t = "bad" THEN Raised
    ELSE IF ~Iterable(GetKey(text, "feed")) THEN Raised
    ELSE FeedLoop(Iterate(GetKey(text, "feed")))

\* response['youtube']['videos'][0]['id'] of the hop-2 response text
Hop2Id(text) ==
    IF text.t = "bad" THEN Raised
    ELSE GetKey(GetFirst(GetKey(GetKey(text, "youtube"), "videos")), "id")

\* ------------------------------------------------------------------------
\* The inputs of a run: texts, mails, HTTP response bodies
\* ------------------------------------------------------------------------
T_Plain == <<"n","e","w"," ","s","o","n","g">>
T_YtShort == <<"y","o","u","t","u",".","b","e","/","A","A","A","A","A","A","A","A","A","A","A">>
T_YtWatch == <<"y","o","u","t","u","b","e","?","v","=","B","B","B","B","B","B","B","B","B","B","B","&","t"," ","s","h","z",".","a","m","/","t","7","\n">>
T_YtNoId == <<"v","i","a"," ","y","o","u","t","u","b","e">>
T_YtFuzzy == <<"y","o","u","t","u","b","e"," ","C","C","C","C","C","C","C","C","C","C","C"," ","s","h","z",".","a","m","/","t","7","\n">>
T_NoLink == <<"n","e","w"," ","s","o","n","g"," ","s","h","z",".","a","m","/","t","\n">>
T_Shz == <<"s","h","z",".","a","m","/","t","7"," ","s","h","a","z","a","m",".","c","o","m","/","t","r","a","c","k","/","4","2","#","x","\n">>
ID_A == <<"A","A","A","A","A","A","A","A","A","A","A">>
ID_B == <<"B","B","B","B","B","B","B","B","B","B","B">>
ID_C == <<"C","C","C","C","C","C","C","C","C","C","C">>
ID_Z == <<"Z","Z","Z","Z","Z","Z","Z","Z","Z","Z","Z">>
S_abc == <<"a","b","c">>
S_other == <<"o","t","h","e","r">>
H_1 == <<"h","t","t","p",":","/","/","h","/","1">>
H_2 == <<"h","t","t","p",":","/","/","h","/","2">>

\* parsed_mail dicts: 'from' is the Return-Path address, 'subject' the
\* Subject header (None when the header is missing), 'body' the payloads of
\* the parts, each followed by a newline ('' when there is no part)
Mails == <<
    [from |-> "a@x.hu", subject |-> JStr(T_YtShort), body |-> T_YtWatch],
    [from |-> "a@x.hu", subject |-> JStr(T_YtNoId),  body |-> T_YtFuzzy],
    [from |-> "b@x.hu", subject |-> None,            body |-> T_Shz],
    [from |-> "a@x.hu", subject |-> JStr(T_Plain),   body |-> T_NoLink] >>

\* kind of a mailbox message: an index of Mails, or Unparsable for a message
\* get_mail cannot parse (no Return-Path address, a payload that is no list
\* of parts)
Unparsable == 0
MailKinds == (1..Len(Mails)) \cup {Unparsable}

YoutubePlay(href) == JObj([type |-> JStr(S_youtubeplay), href |-> href])
GeneralVideos(actions) == JObj([id |-> JStr(S_generalvideos), actions |-> JArr(actions)])
Feed(entries) == JObj([feed |-> JArr(entries)])

\* texts of hop-1 responses with status 200
Hop1Texts == <<
    Feed(<<GeneralVideos(<<YoutubePlay(JStr(H_1))>>)>>),
    Feed(<<GeneralVideos(<<YoutubePlay(JStr(H_1)), YoutubePlay(JStr(H_2))>>)>>),
    Feed(<<JObj([id |-> JStr(S_other), actions |-> JArr(<<>>)])>>),
    Feed(<<>>),
    JObj([other |-> JNum(1)]),
    JBad,
    JObj([feed |-> JNum(5)]),
    JObj([feed |-> JObj([id |-> JStr(S_generalvideos)])]),
    Feed(<<JObj([actions |-> JArr(<<>>)])>>),
    Feed(<<JObj([id |-> JStr(S_generalvideos)])>>),
    Feed(<<JObj([id |-> JStr(S_generalvideos), actions |-> JNum(5)])>>),
    Feed(<<GeneralVideos(<<JObj([href |-> JStr(H_1)])>>)>>),
    Feed(<<GeneralVideos(<<JObj([type |-> JStr(S_youtubeplay)])>>)>>),
    Feed(<<GeneralVideos(<<YoutubePlay(JStr(H_1))>>), JNum(7)>>),
    Feed(<<GeneralVideos(<<YoutubePlay(JStr(<<>>))>>)>>),
    Feed(<<GeneralVideos(<<YoutubePlay(None)>>)>>),
    Feed(<<GeneralVideos(<<YoutubePlay(JNum(5))>>)>>),
    JArr(<<>>) >>

Videos(videos) == JObj([youtube |-> JObj([videos |-> videos])])

\* texts of hop-2 responses with status 200
Hop2Texts == <<
    Videos(JArr(<<JObj([id |-> JStr(ID_Z)])>>)),
    JObj([other |-> JNum(1)]),
    JObj([youtube |-> JObj([other |-> JNum(1)])]),
    Videos(JArr(<<>>)),
    Videos(JArr(<<JObj([other |-> JNum(1)])>>)),
    JBad,
    JObj([youtube |-> JArr(<<>>)]),
    Videos(JStr(S_abc)),
    Videos(JNum(5)),
    Videos(JArr(<<JObj([id |-> None])>>)),
    Videos(JArr(<<JObj([id |-> JStr(<<>>)])>>)),
    Videos(JArr(<<JObj([id |-> JNum(42)])>>)),
    Videos(JArr(<<JObj([id |-> JStr(S_abc)])>>)) >>

\* status codes the HTTP collaborator answers with
StatusCodes == {200, 404}

\* the pieces of the texts get_youtube_id is called with
V_Bare == <<"c","h","e","c","k"," ","t","h","i","s"," ","o","u","t"," ","a","b","c","d","e","f","g","h","i","j","k"," ","t","h","a","n","k","s">>
V_Word == <<"y","o","u","t","u","b","e"," ">>
V_Watch == <<"y","o","u","t","u","b","e",".","c","o","m","/","w","a","t","c","h","?","v","=","A","A","A","A","A","A","A","A","A","A","A">>
V_And == <<"&","v","=","B","B","B","B","B","B","B","B","B","B","B">>
V_Short == <<"y","o","u","t","u",".","b","e","/","D","D","D","D","D","D","D","D","D","D","D">>
V_Upper == <<"Y","o","u","T","u","b","e",".","c","o","m","/","w","a","t","c","h","?","v","=","A","A","A","A","A","A","A","A","A","A","A">>
V_Embed == <<"e","m","b","e","d","/","C","C","C","C","C","C","C","C","C","C","C">>
V_V == <<"/","v","/","E","E","E","E","E","E","E","E","E","E","E">>
V_Query == <<" ","?","v","=","A","A","A","A","A","A","A","A","A","A","A">>
Vocabulary == <<V_Bare, V_Word, V_Watch, V_And, V_Short, V_Upper, V_Embed, V_V, V_Query>>
ID_abc == <<"a","b","c","d","e","f","g","h","i","j","k">>
ID_D == <<"D","D","D","D","D","D","D","D","D","D","D">>
ID_E == <<"E","E","E","E","E","E","E","E","E","E","E">>

\* ------------------------------------------------------------------------
\* State
\* ------------------------------------------------------------------------
VARIABLES
    mainPc,           \* where main / start_listening stands
    ffmpeg_location,  \* result of check_ffmpeg (0 until it has run)
    mailbox,          \* the \Seen flag of the server's messages, in arrival
                      \* order
    mail_ids,         \* the ids of the current batch not yet fetched
    queue,            \* multiprocessing.Queue: the mails put and not yet got
    jobs,             \* one record per queue.put, in put order:
                      \* how often the mail was got from the queue, and
                      \* what became of it (Queued, Taken by a worker,
                      \* Dispatched to the downloader, Dropped)
    pc,               \* where each process_mail worker stands
    mail,             \* the worker's variable mail
    youtube_id,       \* the worker's variable youtube_id
    share_source,     \* the worker's variable share_source
    url,              \* handle_shazam's variable url after hop 1
    response,         \* the last HTTP response handle_shazam received
    trace,            \* the calls and prints the worker made for its mail
    exit,             \* how the worker's process ended ("" while it runs):
                      \* the return of line 237 or of line 242, an exception
                      \* an external call raised, a TypeError
    dirs,             \* the existing output directories, by sender
    parsed_mail,      \* what the last get_mail returned to start_listening:
                      \* "None" or a "dict" ("" before the first call)
    call              \* a call of get_youtube_id by another caller than
                      \* process_mail: its arguments, the steps it ran and
                      \* what it returned

programVars == <<mainPc, ffmpeg_location, mailbox, mail_ids, queue, jobs, pc,
                 mail, youtube_id, share_source, url, response, trace, exit,
                 dirs, parsed_mail>>

vars == <<programVars, call>>

Workers == 1..MaxCpuCount
NoMail == [id |-> 0, kind |-> 0]
NoResponse == [hop |-> 0, status_code |-> 0, text |-> 0]

\* the parsed_mail dict a queue entry carries
Parsed(m) == Mails[m.kind]

\* path of create_out_dir: output/<from>/<year>_<month>, one per sender
\* within a month
OutPath(from_mail) == from_mail

\* no value yet: the function has not returned
NotCalled == [t |-> "notcalled", v |-> <<>>]

\* no call of get_youtube_id besides process_mail's
NoCall == [text |-> <<>>, tokens |-> 0, first_match |-> TRUE, fuzzy |-> TRUE,
           ran |-> <<>>, returned |-> NotCalled]

ProgramInit ==
    /\ mainPc = "main"
    /\ ffmpeg_location = 0
    /\ mailbox = <<>>
    /\ mail_ids = <<>>
    /\ queue = <<>>
    /\ jobs = <<>>
    /\ pc = [w \in Workers |-> "unstarted"]
    /\ mail = [w \in Workers |-> NoMail]
    /\ youtube_id = [w \in Workers |-> None]
    /\ share_source = [w \in Workers |-> ""]
    /\ url = [w \in Workers |-> None]
    /\ response = [w \in Workers |-> NoResponse]
    /\ trace = [w \in Workers |-> <<>>]
    /\ exit = [w \in Workers |-> ""]
    /\ dirs = {}
    /\ parsed_mail = ""

Init ==
    /\ ProgramInit
    /\ call = NoCall

\* ------------------------------------------------------------------------
\* The mail server
\* ------------------------------------------------------------------------
\* a new message arrives in the mailbox
Arrive ==
    /\ Len(mailbox) < MaxMails
    /\ mailbox' = Append(mailbox, FALSE)
    /\ UNCHANGED <<mainPc, ffmpeg_location, mail_ids, queue, jobs, pc, mail,
                   youtube_id, share_source, url, response, trace, exit, dirs>>
    /\ UNCHANGED <<parsed_mail, call>>

\* a search that selects every message
Unseen_All(box) == [i \in 1..Len(box) |-> i]

\* the ids "(UNSEEN)" selects, in mailbox order
Unseen(box) ==
    LET NotSeen(i) == ~box[i]
    IN  SelectSeq([i \in 1..Len(box) |-> i], NotSeen)

\* ------------------------------------------------------------------------
\* main and start_listening
\* ------------------------------------------------------------------------
workerVars == <<pc, mail, youtube_id, share_source, url, response, trace, exit,
               dirs>>

check_ffmpeg ==
    /\ mainPc = "main"
    /\ \E found \in 0..2 :
        /\ ffmpeg_location' = found
        /\ mainPc' = IF found = 0 THEN "exit" ELSE "settings"
    /\ UNCHANGED <<mailbox, mail_ids, queue, jobs>>
    /\ UNCHANGED workerVars
    /\ UNCHANGED <<parsed_mail, call>>

init_mail_settings ==
    /\ mainPc = "settings"
    /\ \E mail_user \in BOOLEAN, mail_pass \in BOOLEAN :
        mainPc' = IF mail_user /\ mail_pass THEN "login" ELSE "exit"
    /\ UNCHANGED <<ffmpeg_location, mailbox, mail_ids, queue, jobs>>
    /\ UNCHANGED workerVars
    /\ UNCHANGED <<parsed_mail, call>>

\* a login that starts the worker processes before it connects
login_WorkersFirst ==
    /\ mainPc = "login"
    /\ \E ok \in BOOLEAN, cpu_count \in 1..MaxCpuCount :
        /\ mainPc' = IF ok THEN "search" ELSE "exit"
        /\ queue' = <<>>
        /\ pc' = [w \in Workers |-> IF w <= cpu_count THEN "get"
                                    ELSE "unstarted"]
    /\ UNCHANGED <<ffmpeg_location, mailbox, mail_ids, jobs, mail, youtube_id,
                   share_source, url, response, trace, exit, dirs>>
    /\ UNCHANGED <<parsed_mail, call>>

\* the connection and login; on success select(), Queue() and the start of
\* the os.cpu_count() worker processes
login ==
    /\ mainPc = "login"
    /\ \E ok \in BOOLEAN, cpu_count \in 1..MaxCpuCount :
        IF ok
        THEN /\ mainPc' = "search"
             /\ queue' = <<>>
             /\ pc' = [w \in Workers |-> IF w <= cpu_count THEN "get"
                                         ELSE "unstarted"]
        ELSE /\ mainPc' = "exit"
             /\ UNCHANGED <<queue, pc>>
    /\ UNCHANGED <<ffmpeg_location, mailbox, mail_ids, jobs, mail, youtube_id,
                   share_source, url, response, trace, exit, dirs>>
    /\ UNCHANGED <<parsed_mail, call>>

\* connection.search(None, '(UNSEEN)'); the search failed or found nothing:
\* on to time.sleep(10)
search ==
    /\ mainPc = "search"
    /\ \E return_code \in {"OK", "NO"} :
        IF return_code # "OK" \/ Unseen(mailbox) = <<>>
        THEN /\ mainPc' = "sleep"
             /\ UNCHANGED mail_ids
        ELSE /\ mainPc' = "fetch"
             /\ mail_ids' = Unseen(mailbox)
    /\ UNCHANGED <<ffmpeg_location, mailbox, queue, jobs>>
    /\ UNCHANGED workerVars
    /\ UNCHANGED <<parsed_mail, call>>

\* a put that loses the mail
QueuePut_Lost(q, m) == q

\* queue.put(mail)
QueuePut(q, m) == Append(q, m)

\* one round of "for mail_id in mail_ids": get_mail and, when it returned a
\* dict, queue.put.  A fetch that answers OK flags the message \Seen and
\* shows what the message is.  After the last round on to time.sleep(10).
fetch ==
    /\ mainPc = "fetch"
    /\ mail_ids # <<>>
    /\ LET mail_id == Head(mail_ids) IN
       \E return_code \in {"OK", "NO"}, kind \in MailKinds :
           IF return_code # "OK"
           THEN /\ parsed_mail' = "None"
                /\ UNCHANGED <<mailbox, queue, jobs>>
           ELSE /\ mailbox' = [mailbox EXCEPT ![mail_id] = TRUE]
                /\ IF kind = Unparsable
                   THEN /\ parsed_mail' = "None"
                        /\ UNCHANGED <<queue, jobs>>
                   ELSE /\ parsed_mail' = "dict"
                        /\ queue' = QueuePut(queue, [id |-> Len(jobs) + 1,
                                                     kind |-> kind])
                        /\ jobs' = Append(jobs, [got |-> 0, st |-> "Queued"])
    /\ mail_ids' = Tail(mail_ids)
    /\ mainPc' = IF Tail(mail_ids) = <<>> THEN "sleep" ELSE "fetch"
    /\ UNCHANGED ffmpeg_location
    /\ UNCHANGED workerVars
    /\ UNCHANGED call

\* a sleep after which the poller starts a new process for every ended one
sleep_Respawn ==
    /\ mainPc = "sleep"
    /\ mainPc' = "search"
    /\ pc' = [w \in Workers |-> IF pc[w] = "dead" THEN "get" ELSE pc[w]]
    /\ UNCHANGED <<ffmpeg_location, mailbox, mail_ids, queue, jobs>>
    /\ UNCHANGED <<mail, youtube_id, share_source, url, response, trace, exit,
                   dirs>>
    /\ UNCHANGED <<parsed_mail, call>>

\* time.sleep(10), then the next round of "while True"
sleep ==
    /\ mainPc = "sleep"
    /\ mainPc' = "search"
    /\ UNCHANGED <<ffmpeg_location, mailbox, mail_ids, queue, jobs>>
    /\ UNCHANGED workerVars
    /\ UNCHANGED <<parsed_mail, call>>

\* ------------------------------------------------------------------------
\* process_mail
\* ------------------------------------------------------------------------
\* a get that leaves the mail on the queue
QueueGet_Peek(q) == q

\* the queue after queue.get() took its first mail
QueueGet(q) == Tail(q)

\* if mail['subject']: youtube_id = get_youtube_id(mail['subject'])
SubjectStep(m) ==
    IF Truthy(m.subject) THEN get_youtube_id(m.subject.v, TRUE, TRUE) ELSE None

\* if not youtube_id and mail['body']: youtube_id = get_youtube_id(mail['body'])
\* where id is youtube_id so far
BodyStep(m, id) ==
    IF ~Truthy(id) /\ Len(m.body) > 0
    THEN get_youtube_id(m.body, TRUE, TRUE)
    ELSE id

\* the pattern steps with the body asked before the subject
PatternResolve_BodyFirst(m) ==
    IF Len(m.body) > 0 /\ Truthy(get_youtube_id(m.body, TRUE, TRUE))
    THEN get_youtube_id(m.body, TRUE, TRUE)
    ELSE SubjectStep(m)

\* youtube_id when line 231 is reached
PatternResolve(m) == BodyStep(m, SubjectStep(m))

\* handle_shazam called whatever the pattern steps found
CallsShazam_Always(id) == TRUE

\* "if not youtube_id" of line 231: handle_shazam is called
CallsShazam(id) == ~Truthy(id)

\* the calls lines 224 to 232 make, in order
ResolveCalls(m) ==
    (IF Truthy(m.subject) THEN <<"get_youtube_id(subject)">> ELSE <<>>)
    \o (IF ~Truthy(SubjectStep(m)) /\ Len(m.body) > 0
        THEN <<"get_youtube_id(body)">> ELSE <<>>)
    \o (IF CallsShazam(PatternResolve(m)) THEN <<"handle_shazam(body)">> ELSE <<>>)

\* share_source left at its default
SourceOf_AlwaysYoutube(step) == "youtube"

\* share_source when line 235 is reached after an identifier came from the
\* pattern steps (line 221) or from handle_shazam (line 233)
SourceOf(step) == IF step = "handle_shazam" THEN "shazam" ELSE "youtube"

\* handle_shazam returns before the hop-1 request: no share link in the body
\* or no digits in it
NoShareLink(mail_body) ==
    \/ shazam_url(mail_body) = <<>>
    \/ shazam_id(shazam_url(mail_body)) = <<>>

\* what the steps above compute for each mail of the run, and what
\* handle_shazam computes from each response text
Resolved ==
    [kind \in 1..Len(Mails) |->
        [youtube_id |-> PatternResolve(Mails[kind]),
         calls |-> ResolveCalls(Mails[kind]),
         no_share_link |-> NoShareLink(Mails[kind].body)]] \o <<>>
Hop1Urls == [text \in 1..Len(Hop1Texts) |-> Hop1Url(Hop1Texts[text])] \o <<>>
Hop2Ids == [text \in 1..Len(Hop2Texts) |-> Hop2Id(Hop2Texts[text])] \o <<>>

\* the worker's local variables
Local(w, at, id, source, u, r, calls) ==
    /\ pc' = [pc EXCEPT ![w] = at]
    /\ youtube_id' = [youtube_id EXCEPT ![w] = id]
    /\ share_source' = [share_source EXCEPT ![w] = source]
    /\ url' = [url EXCEPT ![w] = u]
    /\ response' = [response EXCEPT ![w] = r]
    /\ trace' = [trace EXCEPT ![w] = calls]

\* the process ends, by a return out of "while True" or by an uncaught
\* exception; its variables are gone
Die(w, cause) ==
    /\ Local(w, "dead", None, "", None, NoResponse, <<>>)
    /\ mail' = [mail EXCEPT ![w] = NoMail]
    /\ exit' = [exit EXCEPT ![w] = cause]

\* what became of the mail the worker works on
SetJob(w, status) == jobs' = [jobs EXCEPT ![mail[w].id].st = status]

\* lines 235-237: handle_shazam returned nothing; print and return
Unresolvable(w) == Die(w, "return: cannot parse")

\* mail = queue.get(), blocking while the queue is empty (a parsed mail is a
\* dict of three keys and never falsy: "if not mail" is not taken), the two
\* pattern steps and, when they found nothing, handle_shazam up to its
\* hop-1 request
Take(w) ==
    /\ pc[w] = "get"
    /\ queue # <<>>
    /\ queue' = QueueGet(queue)
    /\ LET m == Head(queue)
           id == Resolved[m.kind].youtube_id
       IN  IF ~CallsShazam(id)
           THEN /\ Local(w, "exists", id, SourceOf("get_youtube_id"), None,
                         NoResponse, Resolved[m.kind].calls)
                /\ mail' = [mail EXCEPT ![w] = m]
                /\ jobs' = [jobs EXCEPT ![m.id].got = @ + 1, ![m.id].st = "Taken"]
                /\ UNCHANGED exit
           ELSE IF Resolved[m.kind].no_share_link
           THEN /\ Unresolvable(w)
                /\ jobs' = [jobs EXCEPT ![m.id].got = @ + 1, ![m.id].st = "Dropped"]
           ELSE /\ Local(w, "hop1", None, "youtube", None, NoResponse,
                         Resolved[m.kind].calls)
                /\ mail' = [mail EXCEPT ![w] = m]
                /\ jobs' = [jobs EXCEPT ![m.id].got = @ + 1, ![m.id].st = "Taken"]
                /\ UNCHANGED exit
    /\ UNCHANGED <<mainPc, ffmpeg_location, mailbox, mail_ids, dirs>>
    /\ UNCHANGED <<parsed_mail, call>>

\* requests.get(shazam_track_url + shazam_id), outside the try block, and
\* the evaluation of its response up to the hop-2 request
Hop1(w) ==
    /\ pc[w] = "hop1"
    /\ \/ /\ Die(w, "raised")
          /\ SetJob(w, "Dropped")
       \/ \E status_code \in StatusCodes :
            IF status_code # 200
            THEN /\ Unresolvable(w)
                 /\ SetJob(w, "Dropped")
            ELSE \E text \in 1..Len(Hop1Texts) :
                   IF Hop1Urls[text].t = "raised" \/ ~Truthy(Hop1Urls[text])
                   THEN /\ Unresolvable(w)
                        /\ SetJob(w, "Dropped")
                   ELSE /\ Local(w, "hop2", None, "youtube", Hop1Urls[text],
                                 [hop |-> 1, status_code |-> status_code,
                                  text |-> text],
                                 Append(trace[w], "hop1"))
                        /\ UNCHANGED <<mail, exit, jobs>>
    /\ UNCHANGED <<mainPc, ffmpeg_location, mailbox, mail_ids, queue, dirs>>
    /\ UNCHANGED <<parsed_mail, call>>

\* requests.get(url) inside the try block and the rest of handle_shazam
\* (whatever raises there ends in "except Exception" and returns None), then
\* lines 233-237
Hop2(w) ==
    /\ pc[w] = "hop2"
    /\ \/ /\ Unresolvable(w)
          /\ SetJob(w, "Dropped")
       \/ /\ url[w].t = "str"
          /\ \E status_code \in StatusCodes :
               IF status_code # 200
               THEN /\ Unresolvable(w)
                    /\ SetJob(w, "Dropped")
               ELSE \E text \in 1..Len(Hop2Texts) :
                      IF Hop2Ids[text].t = "raised" \/ ~Truthy(Hop2Ids[text])
                      THEN /\ Unresolvable(w)
                           /\ SetJob(w, "Dropped")
                      ELSE /\ Local(w, "exists", Hop2Ids[text],
                                    SourceOf("handle_shazam"), None,
                                    [hop |-> 2, status_code |-> status_code,
                                     text |-> text],
                                    Append(trace[w], "hop2"))
                           /\ UNCHANGED <<mail, exit, jobs>>
    /\ UNCHANGED <<mainPc, ffmpeg_location, mailbox, mail_ids, queue, dirs>>
    /\ UNCHANGED <<parsed_mail, call>>

\* a create_out_dir whose result process_mail does not test
Exists_Unchecked(w) ==
    /\ pc[w] = "exists"
    /\ pc' = [pc EXCEPT ![w] = "ytdl"]
    /\ trace' = [trace EXCEPT ![w] = Append(@, "create_out_dir")]
    /\ UNCHANGED <<mainPc, ffmpeg_location, mailbox, mail_ids, queue, jobs,
                   mail, youtube_id, share_source, url, response, exit, dirs>>
    /\ UNCHANGED <<parsed_mail, call>>

\* create_out_dir up to os.path.exists(path): True returns (True, path)
Exists(w) ==
    /\ pc[w] = "exists"
    /\ pc' = [pc EXCEPT ![w] =
                IF OutPath(Parsed(mail[w]).from) \in dirs THEN "ytdl"
                ELSE "makedirs"]
    /\ trace' = [trace EXCEPT ![w] = Append(@, "create_out_dir")]
    /\ UNCHANGED <<mainPc, ffmpeg_location, mailbox, mail_ids, queue, jobs,
                   mail, youtube_id, share_source, url, response, exit, dirs>>
    /\ UNCHANGED <<parsed_mail, call>>

\* os.makedirs(path) raises FileExistsError when the leaf directory exists
MakedirsRaises(path, existing) == path \in existing

\* os.makedirs(path) in its try block, and "if not out_exists: return" of
\* process_mail; besides FileExistsError the file system may raise an
\* OSError (permissions, disk)
Makedirs(w) ==
    /\ pc[w] = "makedirs"
    /\ \/ /\ MakedirsRaises(OutPath(Parsed(mail[w]).from), dirs)
          /\ Die(w, "return: cannot create dir")
          /\ SetJob(w, "Dropped")
          /\ UNCHANGED dirs
       \/ /\ ~MakedirsRaises(OutPath(Parsed(mail[w]).from), dirs)
          /\ Die(w, "return: cannot create dir")
          /\ SetJob(w, "Dropped")
          /\ UNCHANGED dirs
       \/ /\ ~MakedirsRaises(OutPath(Parsed(mail[w]).from), dirs)
          /\ dirs' = dirs \cup {OutPath(Parsed(mail[w]).from)}
          /\ pc' = [pc EXCEPT ![w] = "ytdl"]
          /\ UNCHANGED <<mail, youtube_id, share_source, url, response, trace,
                         exit, jobs>>
    /\ UNCHANGED <<mainPc, ffmpeg_location, mailbox, mail_ids, queue>>
    /\ UNCHANGED <<parsed_mail, call>>

\* the completion message of lines 263-271
Completion(source) ==
    IF source = "shazam" THEN "print Shazam name" ELSE "print Youtube name"

\* lines 244-271: 'https://www.youtube.com/watch?v=' + youtube_id raises
\* TypeError unless youtube_id is a str; extract_info and download may raise;
\* after the completion message the loop is back at queue.get(), where the
\* variables of this round are assigned anew before they are read
Dispatch(w) ==
    /\ pc[w] = "ytdl"
    /\ IF youtube_id[w].t # "str"
       THEN /\ Die(w, "TypeError")
            /\ SetJob(w, "Dropped")
       ELSE /\ SetJob(w, "Dispatched")
            /\ \/ Die(w, "raised")
               \/ /\ Local(w, "get", None, "", None, NoResponse,
                            trace[w] \o <<"extract_info", "download",
                                          Completion(share_source[w])>>)
                  /\ mail' = [mail EXCEPT ![w] = NoMail]
                  /\ UNCHANGED exit
    /\ UNCHANGED <<mainPc, ffmpeg_location, mailbox, mail_ids, queue, dirs>>
    /\ UNCHANGED <<parsed_mail, call>>

process_mail(w) ==
    \/ Take(w)
    \/ Hop1(w)
    \/ Hop2(w)
    \/ Exists(w)
    \/ Makedirs(w)
    \/ Dispatch(w)

start_listening == login \/ search \/ fetch \/ sleep

main == check_ffmpeg \/ init_mail_settings \/ start_listening

Next ==
    \/ Arrive
    \/ main
    \/ \E w \in Workers : process_mail(w)

Spec == Init /\ [][Next]_vars

\* the scheduler runs every process that can take a step, and a blocking
\* call returns
FairSpec ==
    /\ Spec
    /\ WF_vars(main)
    /\ \A w \in Workers : WF_vars(process_mail(w))

TypeOK ==
    /\ mainPc \in {"main", "settings", "login", "search", "fetch", "sleep", "exit"}
    /\ ffmpeg_location \in 0..2
    /\ Len(mailbox) <= MaxMails
    /\ parsed_mail \in {"", "None", "dict"}
    /\ \A w \in Workers :
        pc[w] \in {"unstarted", "get", "hop1", "hop2", "exists", "makedirs",
                   "ytdl", "dead"}
    /\ \A w \in Workers :
        exit[w] \in {"", "return: cannot parse", "return: cannot create dir",
                     "raised", "TypeError"}
    /\ \A j \in 1..Len(jobs) :
        jobs[j].st \in {"Queued", "Taken", "Dispatched", "Dropped"}

\* ------------------------------------------------------------------------
\* Properties
\* ------------------------------------------------------------------------
Terminal(j) == jobs[j].st \in {"Dispatched", "Dropped"}

\* an external call failed: a request or the downloader raised or answered
\* what the worker raised on, or the output directory could not be created
ExternalFailure ==
    \E w \in Workers : exit[w] \in {"raised", "TypeError", "return: cannot create dir"}

\* C1: when the scheduling is fair and no external call fails, every job put
\* on the queue eventually reaches a terminal state, Dispatched or Dropped;
\* none stays Queued forever
C1_PipelineCompleteness ==
    \A j \in 1..MaxMails :
        (j <= Len(jobs)) ~> ((j <= Len(jobs) /\ Terminal(j)) \/ ExternalFailure)

\* C2: a worker that met an unresolvable message is still running: no worker
\* process ends because a mail could not be parsed
C2_UnresolvableIsNotFatal ==
    \A w \in Workers : exit[w] # "return: cannot parse"

\* C3: a failing external step (a request or the downloader raising, the
\* output directory not created) abandons the job only: no worker process
\* ends because of it
C3_ExternalFailureIsIsolated ==
    \A w \in Workers : exit[w] \notin {"raised", "return: cannot create dir"}

\* C4: a worker that found the output directory missing and calls makedirs
\* after another worker created it still gets (True, path): it does not stop
C4_CreateOutDirRaceSafe ==
    [][\A w \in Workers :
         (pc[w] = "makedirs" /\ OutPath(Parsed(mail[w]).from) \in dirs)
            => pc'[w] # "dead"]_vars

\* C5: every mail put on the queue is got from it at most once, the mails the
\* workers hold are pairwise different jobs, and a mail still on the queue
\* has not been got by any worker
C5_NoDuplicateProcessing ==
    /\ \A j \in 1..Len(jobs) : jobs[j].got <= 1
    /\ \A w1 \in Workers, w2 \in Workers :
        (w1 # w2 /\ mail[w1].id # 0) => mail[w1].id # mail[w2].id
    /\ \A i \in 1..Len(queue) :
        /\ jobs[queue[i].id].got = 0
        /\ \A w \in Workers : mail[w].id # queue[i].id
        /\ \A k \in 1..Len(queue) : queue[k].id = queue[i].id => k = i

\* two workers hold mails at the same time, both got from the shared queue
C5_Witness ==
    \E w1 \in Workers, w2 \in Workers :
        /\ w1 # w2
        /\ mail[w1].id # 0
        /\ mail[w2].id # 0
        /\ jobs[mail[w1].id].got = 1
        /\ jobs[mail[w2].id].got = 1

\* ------------------------------------------------------------------------
\* Resolution: what the claims C6 to C10 speak about
\* ------------------------------------------------------------------------
\* the worker has an identifier: it is in create_out_dir or at the downloader
AfterResolution == {"exists", "makedirs", "ytdl"}

\* the pattern resolver's result on the subject and on the body of a mail
\* (nothing for a missing Subject header)
SubjectYield(m) ==
    IF m.subject.t = "str" THEN get_youtube_id(m.subject.v, TRUE, TRUE) ELSE None
BodyYield(m) == get_youtube_id(m.body, TRUE, TRUE)

\* both, for each mail of the run
Yields ==
    [kind \in 1..Len(Mails) |->
        [subject |-> SubjectYield(Mails[kind]),
         body |-> BodyYield(Mails[kind])]] \o <<>>

\* the same Python value
Same(x, y) == x.t = y.t /\ x.v = y.v

\* the worker's trace has the entry / the position of its first occurrence
InTrace(w, entry) == \E i \in 1..Len(trace[w]) : trace[w][i] = entry
Pos(w, entry) == CHOOSE i \in 1..Len(trace[w]) : trace[w][i] = entry

\* C6: every identifier handed to the downloader, whichever step produced
\* it, is a string of exactly 11 characters none of which is '#', '&' or '?'
C6_IdentifierAtDispatch ==
    \A w \in Workers :
        (pc[w] = "ytdl" /\ youtube_id[w].t = "str") =>
            /\ Len(youtube_id[w].v) = IdLen
            /\ \A k \in 1..Len(youtube_id[w].v) : IdChar(youtube_id[w].v[k])

\* C7: the identifier a worker resolved is the subject's pattern result if
\* the subject yields one, else the body's pattern result if the body yields
\* one, else what the indirect lookup returned for the body
C7_ResolutionPrecedence ==
    \A w \in Workers :
        pc[w] \in AfterResolution =>
            IF Truthy(Yields[mail[w].kind].subject)
            THEN Same(youtube_id[w], Yields[mail[w].kind].subject)
            ELSE IF Truthy(Yields[mail[w].kind].body)
            THEN Same(youtube_id[w], Yields[mail[w].kind].body)
            ELSE /\ response[w].hop = 2
                 /\ Same(youtube_id[w], Hop2Id(Hop2Texts[response[w].text]))

\* a mail whose subject and body hold different valid identifiers is at the
\* downloader with the subject's
C7_Witness ==
    \E w \in Workers :
        /\ pc[w] = "ytdl"
        /\ Truthy(Yields[mail[w].kind].subject)
        /\ Truthy(Yields[mail[w].kind].body)
        /\ Yields[mail[w].kind].subject.v # Yields[mail[w].kind].body.v
        /\ youtube_id[w].t = "str"
        /\ youtube_id[w].v = ID_A

\* the worker's job is in the indirect lookup or went through it
IndirectLookup(w) ==
    \/ pc[w] \in {"hop1", "hop2"}
    \/ response[w].hop # 0
    \/ InTrace(w, "handle_shazam(body)")
    \/ InTrace(w, "hop1")
    \/ InTrace(w, "hop2")

\* C8: handle_shazam and its HTTP requests come only after the pattern
\* resolver was tried on subject and body and found nothing in either; a job
\* whose subject or body yields an identifier issues no lookup request
C8_FallbackChainOrdering ==
    \A w \in Workers :
        /\ IndirectLookup(w) =>
            /\ InTrace(w, "handle_shazam(body)")
            /\ \A i \in 1..Len(trace[w]) :
                /\ trace[w][i] \in {"get_youtube_id(subject)", "get_youtube_id(body)"}
                     => i < Pos(w, "handle_shazam(body)")
                /\ trace[w][i] \in {"hop1", "hop2"}
                     => i > Pos(w, "handle_shazam(body)")
        /\ (IndirectLookup(w) /\ mail[w].id # 0) =>
            /\ ~Truthy(Yields[mail[w].kind].subject)
            /\ ~Truthy(Yields[mail[w].kind].body)
            /\ Truthy(Parsed(mail[w]).subject) => InTrace(w, "get_youtube_id(subject)")
            /\ Len(Parsed(mail[w]).body) > 0 => InTrace(w, "get_youtube_id(body)")
        /\ (/\ mail[w].id # 0
            /\ \/ Truthy(Yields[mail[w].kind].subject)
               \/ Truthy(Yields[mail[w].kind].body)) => ~IndirectLookup(w)

\* a mail whose body holds an identifier and a share link is at the
\* downloader, and no lookup was made for it
C8_Witness ==
    \E w \in Workers :
        /\ pc[w] = "ytdl"
        /\ ~Truthy(Yields[mail[w].kind].subject)
        /\ Truthy(Yields[mail[w].kind].body)
        /\ ~NoShareLink(Parsed(mail[w]).body)
        /\ InTrace(w, "get_youtube_id(body)")
        /\ ~IndirectLookup(w)

\* C9: a job in create_out_dir or at the downloader is tagged 'youtube'
\* exactly when the pattern resolver produced its identifier and 'shazam'
\* exactly when handle_shazam did; the Shazam completion message is printed
\* only after the two hops, the Youtube one only without them
C9_ProvenanceTag ==
    \A w \in Workers :
        /\ pc[w] \in AfterResolution =>
            /\ share_source[w] \in {"youtube", "shazam"}
            /\ share_source[w] = "youtube" <=>
                  \/ Truthy(Yields[mail[w].kind].subject)
                  \/ Truthy(Yields[mail[w].kind].body)
            /\ share_source[w] = "shazam" <=>
                  /\ response[w].hop = 2
                  /\ InTrace(w, "hop1")
                  /\ InTrace(w, "hop2")
        /\ InTrace(w, "print Shazam name") =>
            /\ InTrace(w, "hop1")
            /\ InTrace(w, "hop2")
            /\ ~InTrace(w, "print Youtube name")
        /\ InTrace(w, "print Youtube name") => ~InTrace(w, "handle_shazam(body)")

\* one worker printed the Shazam completion message, another the Youtube one
C9_Witness ==
    \E w1 \in Workers, w2 \in Workers :
        /\ InTrace(w1, "print Shazam name")
        /\ InTrace(w2, "print Youtube name")

\* the hop-1 document has every key the loops read, of the type they need,
\* and a generalvideos entry with a youtubeplay action
WellFormedHop1(text) ==
    /\ text.t = "obj"
    /\ "feed" \in DOMAIN text.v
    /\ text.v["feed"].t = "arr"
    /\ \A i \in 1..Len(text.v["feed"].v) :
        LET feed == text.v["feed"].v[i] IN
        /\ feed.t = "obj"
        /\ "id" \in DOMAIN feed.v
        /\ (feed.v["id"].t = "str" /\ feed.v["id"].v = S_generalvideos) =>
            /\ "actions" \in DOMAIN feed.v
            /\ feed.v["actions"].t = "arr"
            /\ \A k \in 1..Len(feed.v["actions"].v) :
                LET action == feed.v["actions"].v[k] IN
                /\ action.t = "obj"
                /\ "type" \in DOMAIN action.v
                /\ (action.v["type"].t = "str" /\ action.v["type"].v = S_youtubeplay)
                      => "href" \in DOMAIN action.v
    /\ \E i \in 1..Len(text.v["feed"].v) :
        LET feed == text.v["feed"].v[i] IN
        /\ feed.v["id"].t = "str"
        /\ feed.v["id"].v = S_generalvideos
        /\ \E k \in 1..Len(feed.v["actions"].v) :
            /\ feed.v["actions"].v[k].v["type"].t = "str"
            /\ feed.v["actions"].v[k].v["type"].v = S_youtubeplay

\* the hop-2 document has youtube.videos[0].id, each of the type the code
\* needs: dict, dict, non-empty list, dict, str
WellFormedHop2(text) ==
    /\ text.t = "obj"
    /\ "youtube" \in DOMAIN text.v
    /\ text.v["youtube"].t = "obj"
    /\ "videos" \in DOMAIN text.v["youtube"].v
    /\ text.v["youtube"].v["videos"].t = "arr"
    /\ Len(text.v["youtube"].v["videos"].v) > 0
    /\ text.v["youtube"].v["videos"].v[1].t = "obj"
    /\ "id" \in DOMAIN text.v["youtube"].v["videos"].v[1].v
    /\ text.v["youtube"].v["videos"].v[1].v["id"].t = "str"

\* C10: handle_shazam goes on after a hop only when the hop answered 200
\* with a well-formed document; in every other case it returned None and the
\* worker treated the job as unresolvable, and no worker raised on the result
C10_IndirectResolverDegrades ==
    \A w \in Workers :
        /\ pc[w] = "hop2" =>
            /\ response[w].status_code = 200
            /\ WellFormedHop1(Hop1Texts[response[w].text])
        /\ (pc[w] \in AfterResolution /\ response[w].hop = 2) =>
            /\ response[w].status_code = 200
            /\ WellFormedHop2(Hop2Texts[response[w].text])
        /\ exit[w] # "TypeError"

\* ------------------------------------------------------------------------
\* get_youtube_id called directly, with every combination of first_match
\* and fuzzy
\* ------------------------------------------------------------------------
\* the steps of get_youtube_id that run: the base pattern always, the
\* structural patterns when it found something, the split when fuzzy is set
Phases(text, fuzzy) ==
    <<"base_pattern">>
    \o (IF base_pattern(text)
        THEN <<"patterns">> \o (IF fuzzy THEN <<"fuzzy_split">> ELSE <<>>)
        ELSE <<>>)

\* tuple(set(results)): the elements of the set, each once, in an order the
\* language does not fix
TupleOrders(S) ==
    {order \in [1..Cardinality(S) -> S] : \A e \in S : \E i \in 1..Cardinality(S) : order[i] = e}

ResolverInit ==
    /\ ProgramInit
    /\ \E first_match \in BOOLEAN, fuzzy \in BOOLEAN :
        call = [NoCall EXCEPT !.first_match = first_match, !.fuzzy = fuzzy]

\* the caller puts the text together
Compose ==
    /\ call.returned.t = "notcalled"
    /\ call.tokens < MaxTokens
    /\ \E k \in 1..Len(Vocabulary) :
        call' = [call EXCEPT !.text = @ \o Vocabulary[k], !.tokens = @ + 1]
    /\ UNCHANGED programVars

\* get_youtube_id(text, first_match, fuzzy) runs and returns
Call ==
    /\ call.returned.t = "notcalled"
    /\ LET r == get_youtube_id(call.text, call.first_match, call.fuzzy) IN
       IF r.t = "tuple"
       THEN \E order \in TupleOrders(r.v) :
              call' = [call EXCEPT !.returned = [t |-> "tuple", v |-> order],
                                   !.ran = Phases(call.text, call.fuzzy)]
       ELSE call' = [call EXCEPT !.returned = r,
                                 !.ran = Phases(call.text, call.fuzzy)]
    /\ UNCHANGED programVars

ResolverNext == Compose \/ Call

ResolverSpec == ResolverInit /\ [][ResolverNext]_vars

\* get_youtube_id returned
Called == call.returned.t # "notcalled"

\* it returned the identifier id / not-found
Returned(id) == call.returned.t = "str" /\ call.returned.v = id
ReturnedNone == call.returned.t = "none"

\* C11 as stated: for "check this out abcdefghijk thanks" the call with
\* fuzzy returns 'abcdefghijk', the call without fuzzy returns not-found
C11_FuzzyRecoversBareId ==
    (Called /\ call.first_match /\ call.text = V_Bare) =>
        IF call.fuzzy THEN Returned(ID_abc) ELSE ReturnedNone

\* C11 amended: with a youtube token beside it the bare token is returned by
\* the call with fuzzy and not by the call without; the text without a
\* youtube token gives not-found with and without fuzzy
C11_FuzzyRecoversBareIdBesideToken ==
    /\ (Called /\ call.first_match /\ call.text \in {V_Word \o V_Bare, V_Bare \o V_Word}) =>
        IF call.fuzzy THEN Returned(ID_abc) ELSE ReturnedNone
    /\ (Called /\ call.text = V_Bare) => ReturnedNone

\* the call with fuzzy returned the bare token of "youtube check this out
\* abcdefghijk thanks"
C11_Witness ==
    /\ call.text = V_Word \o V_Bare
    /\ call.fuzzy
    /\ call.first_match
    /\ Returned(ID_abc)

\* the text holds the literal somewhere
Contains(text, literal) == \E i \in 1..Len(text) : LiteralAt(text, i, literal)

\* the text holds a youtube-like token, 'youtube' or 'youtu.be'
YoutubeToken(text) == Contains(text, S_youtube) \/ Contains(text, S_youtu_be)

\* some delimiter-separated piece of the text has exactly 11 characters
\* without '#', '&', '?'
BareTokenAt(text, i) ==
    /\ \A k \in 0..(IdLen - 1) : IdChar(text[i + k]) /\ ~FuzzyDelim(text[i + k])
    /\ i > 1 => FuzzyDelim(text[i - 1])
    /\ i + IdLen <= Len(text) => FuzzyDelim(text[i + IdLen])
HasBareToken(text) == \E i \in 1..(Len(text) - IdLen + 1) : BareTokenAt(text, i)

\* C12: a call on a text without a youtube-like token returns not-found
\* for every first_match and fuzzy, and runs neither the structural patterns
\* nor the split, whatever 11-character tokens or URL shapes the text holds
C12_FastReject ==
    (Called /\ ~YoutubeToken(call.text)) =>
        /\ ReturnedNone
        /\ call.ran = <<"base_pattern">>

\* a text with an 11-character token and a '?v=' shape but no youtube-like
\* token was searched for all matches with fuzzy, and nothing was found
C12_Witness ==
    /\ Called
    /\ ~YoutubeToken(call.text)
    /\ HasBareToken(call.text)
    /\ \E i \in 1..Len(call.text) : PatternAt(call.text, i, P_qv)
    /\ call.fuzzy
    /\ ~call.first_match
    /\ ReturnedNone

\* letters, to compare host names whatever their letter case
UpperCase == <<"A","B","C","D","E","F","G","H","I","J","K","L","M","N","O","P","Q","R","S","T","U","V","W","X","Y","Z">>
LowerCase == <<"a","b","c","d","e","f","g","h","i","j","k","l","m","n","o","p","q","r","s","t","u","v","w","x","y","z">>
Lower(c) ==
    IF \E i \in 1..Len(UpperCase) : UpperCase[i] = c
    THEN LowerCase[CHOOSE i \in 1..Len(UpperCase) : UpperCase[i] = c]
    ELSE c
LowerText(text) == [i \in 1..Len(text) |-> Lower(text[i])]

\* the text names a YouTube host, youtube or youtu.be, in any letter case
\* (host names do not distinguish case)
YoutubeHost(text) == YoutubeToken(LowerText(text))

\* the identifiers of the well-formed share URLs of the text: what follows
\* one of the known shapes, 11 characters without '#', '&', '?'
ShareUrlIds(text) ==
    {SubSeq(text, i + Len(patterns[k]), i + Len(patterns[k]) + IdLen - 1) :
        <<k, i>> \in {p \in (1..Len(patterns)) \X (1..Len(text)) :
                        PatternAt(text, p[2], patterns[p[1]])}}

\* the elements of the returned tuple
ReturnedIds == {call.returned.v[i] : i \in 1..Len(call.returned.v)}

\* what C13 promises for the call: in first-match mode an identifier of a
\* share URL of the text is returned, in all-matches mode all of them are
\* among the returned
ShareUrlsResolved ==
    IF call.first_match
    THEN call.returned.t = "str" /\ call.returned.v \in ShareUrlIds(call.text)
    ELSE call.returned.t = "tuple" /\ ShareUrlIds(call.text) \subseteq ReturnedIds

\* C13: a call on a text that names a YouTube host and holds a well-formed
\* share URL of a known shape returns the URL's identifier, as the
\* first-match result and as a member of the all-matches result
C13_ShareUrlsResolved ==
    (Called /\ YoutubeHost(call.text) /\ ShareUrlIds(call.text) # {}) =>
        ShareUrlsResolved

\* the 11-character pieces of the text
BareTokens(text) ==
    {SubSeq(text, i, i + IdLen - 1) :
        i \in {p \in 1..(Len(text) - IdLen + 1) : BareTokenAt(text, p)}}

\* all candidates of a call: the identifiers of the URL shapes and, with
\* fuzzy, the 11-character pieces
AllCandidates(text, fuzzy) ==
    ShareUrlIds(text) \cup (IF fuzzy THEN BareTokens(text) ELSE {})

FetchRound == mainPc = "fetch" /\ mail_ids' # mail_ids

\* C15: a message whose fetch or parse failed (get_mail returned None) is
\* not put on the queue and the poller goes on with the rest of the batch;
\* every message of the batch that get_mail parsed is put at the end of
\* the queue, so in the order of the search result
C15_FetchFailuresSkipped ==
    [][FetchRound =>
        /\ mail_ids' = Tail(mail_ids)
        /\ mainPc' = (IF Tail(mail_ids) = <<>> THEN "sleep" ELSE "fetch")
        /\ ~mailbox'[Head(mail_ids)] => parsed_mail' = "None"
        /\ parsed_mail' = "None" => queue' = queue /\ jobs' = jobs
        /\ parsed_mail' = "dict" =>
            /\ Len(queue') = Len(queue) + 1
            /\ SubSeq(queue', 1, Len(queue)) = queue
            /\ Len(jobs') = Len(jobs) + 1
            /\ mailbox'[Head(mail_ids)]
      ]_vars

\* a batch of two messages is through: the fetch of the first failed, it
\* is still unseen and was not put; the second was parsed and put
C15_Witness ==
    /\ mainPc = "sleep"
    /\ mailbox = <<FALSE, TRUE>>
    /\ parsed_mail = "dict"
    /\ Len(jobs) = 1

\* the messages the server has flagged \Seen
SeenMails == {i \in 1..Len(mailbox) : mailbox[i]}

\* C16: a message the server flagged \Seen stays so; only a message that
\* was unseen is put, and it is seen from then on, so no message is put
\* twice over any number of polls; a mail a worker gave up is not on the
\* queue again and its record does not change any more
C16_NoAutomaticRetry ==
    [][/\ \A i \in 1..Len(mailbox) : mailbox[i] => mailbox'[i]
       /\ (FetchRound /\ jobs' # jobs) =>
            /\ ~mailbox[Head(mail_ids)]
            /\ mailbox'[Head(mail_ids)]
            /\ Len(jobs') = Len(jobs) + 1
       /\ Len(jobs') <= Cardinality({i \in 1..Len(mailbox') : mailbox'[i]})
       /\ \A j \in 1..Len(jobs) :
            jobs[j].st = "Dropped" =>
                /\ jobs'[j] = jobs[j]
                /\ \A k \in 1..Len(queue') : queue'[k].id # j
      ]_vars

\* message 2 was fetched and a worker gave it up; a later poll found only
\* message 1, whose fetch had failed, and is about to fetch it again
C16_Witness ==
    /\ mainPc = "fetch"
    /\ mail_ids = <<1>>
    /\ mailbox = <<FALSE, TRUE>>
    /\ SeenMails = {2}
    /\ Len(jobs) = 1
    /\ jobs[1].st = "Dropped"
    /\ queue = <<>>

\* ------------------------------------------------------------------------
\* Startup
\* ------------------------------------------------------------------------
\* main has not reached the loop of start_listening, or has exited
Startup == mainPc \in {"main", "settings", "login", "exit"}

\* no worker process was started, nothing was searched, fetched or put
PipelineUntouched ==
    /\ \A w \in Workers : pc[w] = "unstarted" /\ trace[w] = <<>>
    /\ queue = <<>>
    /\ jobs = <<>>
    /\ mail_ids = <<>>
    /\ parsed_mail = ""
    /\ SeenMails = {}

\* C17: without ffmpeg the process exits; an exit is reached only from
\* check_ffmpeg, the credentials test or the login, and it is final; up to
\* the login and after an exit no worker was started, no queue was filled and
\* no search or fetch was issued
C17_StartupFatalBeforePipeline ==
    /\ []((mainPc # "main" /\ ffmpeg_location = 0) => mainPc = "exit")
    /\ [](Startup => PipelineUntouched)
    /\ [][/\ mainPc = "exit" => mainPc' = "exit"
          /\ mainPc' = "exit" => Startup]_vars

\* ffmpeg was found but the credentials were missing or the login failed:
\* the process has exited while two unseen messages wait on the server
C17_Witness ==
    /\ mainPc = "exit"
    /\ ffmpeg_location # 0
    /\ mailbox = <<FALSE, FALSE>>
    /\ PipelineUntouched

\* ------------------------------------------------------------------------
\* The hop-1 action
\* ------------------------------------------------------------------------
\* the href of the first action of type 'youtubeplay', in array order, of
\* the first 'generalvideos' entry that has one, in a well-formed hop-1
\* document
FirstYoutubePlay(text) ==
    LET feeds == text.v["feed"].v
        IsPlay(i, k) ==
            /\ feeds[i].v["actions"].v[k].v["type"].t = "str"
            /\ feeds[i].v["actions"].v[k].v["type"].v = S_youtubeplay
        HasPlay(i) ==
            /\ feeds[i].v["id"].t = "str"
            /\ feeds[i].v["id"].v = S_generalvideos
            /\ \E k \in 1..Len(feeds[i].v["actions"].v) : IsPlay(i, k)
        i0 == CHOOSE i \in 1..Len(feeds) :
                  HasPlay(i) /\ \A j \in 1..(i - 1) : ~HasPlay(j)
        k0 == CHOOSE k \in 1..Len(feeds[i0].v["actions"].v) :
                  IsPlay(i0, k) /\ \A j \in 1..(k - 1) : ~IsPlay(i0, j)
    IN  feeds[i0].v["actions"].v[k0].v["href"]

\* C18: the URL handle_shazam requests in hop 2 is the href of the first
\* 'youtubeplay' action of the 'generalvideos' entry of the hop-1 document
C18_Hop1FirstAction ==
    \A w \in Workers :
        (/\ pc[w] = "hop2"
         /\ response[w].hop = 1
         /\ WellFormedHop1(Hop1Texts[response[w].text])) =>
            Same(url[w], FirstYoutubePlay(Hop1Texts[response[w].text]))

\* ------------------------------------------------------------------------
\* The worker pool
\* ------------------------------------------------------------------------
\* the worker processes that were started / that still run
Started == {w \in Workers : pc[w] # "unstarted"}
Live == {w \in Workers : pc[w] \notin {"unstarted", "dead"}}

\* the poller is in its loop
Polling == mainPc \in {"search", "fetch", "sleep"}

\* C19: worker processes are started at one point only, after the login and
\* before the first search, os.cpu_count() of them; from then on an ended
\* process stays ended, so the number of running ones never grows, and the
\* poller always has its next step whatever the workers do
C19_PoolNeverReplenished ==
    /\ [](Polling => Started # {} /\ ENABLED (search \/ fetch \/ sleep))
    /\ [][/\ Started' # Started =>
              /\ mainPc = "login" /\ mainPc' = "search"
              /\ Started = {}
              /\ \E cpu_count \in 1..MaxCpuCount : Started' = 1..cpu_count
              /\ Live' = Started'
          /\ Polling =>
              /\ Started' = Started
              /\ Live' \subseteq Live
              /\ Polling'
          /\ \A w \in Workers : pc[w] = "dead" => pc'[w] = "dead"
         ]_vars

\* every started worker has ended; a mail put since then waits on the queue
\* and the poller is searching again
C19_Witness ==
    /\ mainPc = "search"
    /\ Started # {}
    /\ Live = {}
    /\ queue # <<>>
    /\ \E j \in 1..Len(jobs) : jobs[j].st = "Queued"

\* ------------------------------------------------------------------------
\* The dispatch to the downloader
\* ------------------------------------------------------------------------
\* how often the worker's trace has the entry
Count(w, entry) == Cardinality({i \in 1..Len(trace[w]) : trace[w][i] = entry})

\* the trace entries of the resolution steps
ResolutionCalls ==
    {"get_youtube_id(subject)", "get_youtube_id(body)", "handle_shazam(body)",
     "hop1", "hop2"}

\* C20: a worker stands before the downloader only with a non-empty
\* identifier and an existing output directory of the sender, after
\* create_out_dir, which came after the resolution; a job becomes
\* Dispatched only from there and its record is final; a job's trace has at
\* most one extract_info, followed by one download
C20_DispatchGuard ==
    /\ [](\A w \in Workers :
            /\ pc[w] = "ytdl" =>
                /\ Truthy(youtube_id[w])
                /\ OutPath(Parsed(mail[w]).from) \in dirs
                /\ Count(w, "create_out_dir") = 1
                /\ \A i \in 1..Len(trace[w]) :
                     trace[w][i] \in ResolutionCalls => i < Pos(w, "create_out_dir")
                /\ ~InTrace(w, "extract_info") /\ ~InTrace(w, "download")
            /\ (InTrace(w, "extract_info") \/ InTrace(w, "download")) =>
                /\ Count(w, "extract_info") = 1
                /\ Count(w, "download") = 1
                /\ Count(w, "create_out_dir") = 1
                /\ Pos(w, "create_out_dir") < Pos(w, "extract_info")
                /\ Pos(w, "download") = Pos(w, "extract_info") + 1)
    /\ [][\A j \in 1..Len(jobs) :
            /\ jobs[j].st = "Dispatched" => jobs'[j] = jobs[j]
            /\ (jobs[j].st # "Dispatched" /\ jobs'[j].st = "Dispatched") =>
                \E w \in Workers :
                    /\ pc[w] = "ytdl"
                    /\ mail[w].id = j
                    /\ youtube_id[w].t = "str"
                    /\ Truthy(youtube_id[w])
                    /\ OutPath(Parsed(mail[w]).from) \in dirs
         ]_vars

\* one job went through extract_info and download; another one's directory
\* could not be created and it was dropped without reaching the downloader
C20_Witness ==
    /\ \E w \in Workers :
        /\ pc[w] = "get"
        /\ InTrace(w, "download")
    /\ \E w \in Workers : exit[w] = "return: cannot create dir"
    /\ \E j \in 1..Len(jobs) : jobs[j].st = "Dispatched"
    /\ \E j \in 1..Len(jobs) : jobs[j].st = "Dropped"

====
